---- MODULE Spec2Model ----
(***************************************************************************)
(* Model of src/src/main.js: analyzeSalesData and the two default          *)
(* strategies calculateSimpleRevenue and calculateBonusByProfit.           *)
(*                                                                         *)
(* Numbers.  Prices, quantities and total_amount are integers and a        *)
(* discount is an integer percentage.  Accumulated money (revenue, profit, *)
(* bonus) is kept as an integer number of 1/Scale of a currency unit, so   *)
(* that percentages of percentages are exact; arithmetic is the exact      *)
(* arithmetic of the formulas, not IEEE-754.  A JavaScript value that is   *)
(* absent, null, 0 or "" is falsy; the model writes 0 (numbers) or ""      *)
(* (strings) for every falsy value, which is all the code can tell apart.  *)
(***************************************************************************)
EXTENDS Integers, Sequences, FiniteSets, TLC

VARIABLES data, options, pc, thrown, sellerIndex, productIndex, sellerStats,
          next, revenueCalls, bonusCalls, result, bonusCall

vars == <<data, options, pc, thrown, sellerIndex, productIndex, sellerStats,
          next, revenueCalls, bonusCalls, result, bonusCall>>

(***************************************************************************)
(* Bounds of the model.                                                    *)
(***************************************************************************)
MaxSellers == 3
MaxRecords == 2
NumSkus == 12
MaxTotal == 6

Scale == 100 * 100

Truthy(v) == v # 0
TruthyStr(s) == s # ""

(***************************************************************************)
(* Input values.                                                           *)
(***************************************************************************)
Seller(i, f, l) == [id |-> i, first_name |-> f, last_name |-> l]
Product(s, pp, sp) == [sku |-> s, purchase_price |-> pp, sale_price |-> sp]
Item(s, q, sp, d) == [sku |-> s, quantity |-> q, sale_price |-> sp, discount |-> d]
Items(seq) == [kind |-> "array", elems |-> seq]
Record(sid, amount, its) == [seller_id |-> sid, total_amount |-> amount, items |-> its]
Coll(seq) == [isArray |-> TRUE, elems |-> seq]
NotArray == [isArray |-> FALSE, elems |-> <<>>]

SeqsUpTo(S, n) == UNION {[1..k -> S] : k \in 1..n}

SellerPool == {Seller(1, "Ann", "Lee"), Seller(2, "Bob", "Ray"), Seller(1, "Al", "Lee")}

BigCatalogue == [k \in 1..NumSkus |-> Product(k, 10, 20)]

ProductLists ==
  { <<Product(1, 50, 100)>>,
    <<Product(1, 50, 100), Product(2, 30, 40), Product(1, 120, 90)>>,
    BigCatalogue }

BigRecord == Record(1, 500, Items([k \in 1..NumSkus |-> Item(k, (k % 3) + 1, 20, 0)]))

RecordPool ==
  { Record(1, 200, Items(<<Item(1, 2, 100, 0)>>)),
    Record(1, 150, Items(<<Item(2, 3, 40, 10), Item(1, 1, 100, 0)>>)),
    Record(2, 200, Items(<<Item(1, 2, 100, 0)>>)),
    Record(2, 80, Items(<<Item(99, 2, 40, 0)>>)),
    BigRecord }

Options(r, b) == [present |-> TRUE, calculateRevenue |-> r, calculateBonus |-> b]
NoOptions == [present |-> FALSE, calculateRevenue |-> "none", calculateBonus |-> "none"]

OptionsPool == {Options("simple", "byProfit"), Options("catalog", "byRevenue")}

Data(s, p, r) == [present |-> TRUE, sellers |-> s, products |-> p, purchase_records |-> r]
NoData == [present |-> FALSE, sellers |-> NotArray, products |-> NotArray,
           purchase_records |-> NotArray]

ValidData ==
  { Data(Coll(s), Coll(p), Coll(r)) :
      s \in SeqsUpTo(SellerPool, MaxSellers),
      p \in ProductLists,
      r \in SeqsUpTo(RecordPool, MaxRecords) }

GoodSellers == Coll(<<Seller(1, "Ann", "Lee"), Seller(2, "Bob", "Ray")>>)
GoodProducts == Coll(<<Product(1, 50, 100), Product(2, 30, 40)>>)
GoodRecord == Record(1, 200, Items(<<Item(1, 2, 100, 0)>>))

DefectSellers ==
  { GoodSellers, NotArray, Coll(<<>>),
    Coll(<<Seller(0, "Ann", "Lee")>>),
    Coll(<<Seller(1, "Ann", "Lee"), Seller(2, "", "Ray")>>),
    Coll(<<Seller(2, "Bob", ""), Seller(1, "Ann", "Lee")>>) }

DefectProducts ==
  { GoodProducts, NotArray, Coll(<<>>),
    Coll(<<Product(0, 50, 100)>>),
    Coll(<<Product(1, 50, 100), Product(2, 0, 40)>>),
    Coll(<<Product(2, 30, 0), Product(1, 50, 100)>>) }

DefectRecords ==
  { Coll(<<GoodRecord>>), NotArray, Coll(<<>>),
    Coll(<<Record(0, 200, Items(<<Item(1, 2, 100, 0)>>))>>),
    Coll(<<GoodRecord, Record(1, 200, [kind |-> "missing", elems |-> <<>>])>>),
    Coll(<<Record(2, 200, [kind |-> "notArray", elems |-> <<>>])>>),
    Coll(<<Record(2, 200, Items(<<>>)), GoodRecord>>),
    Coll(<<Record(1, 200, Items(<<Item(0, 2, 100, 0)>>))>>),
    Coll(<<GoodRecord, Record(1, 200, Items(<<Item(1, 0, 100, 0)>>))>>),
    Coll(<<Record(2, 200, Items(<<Item(1, 2, 100, 0), Item(2, 1, 0, 0)>>))>>) }

DefectOptions ==
  { Options("simple", "byProfit"), NoOptions,
    Options("none", "byProfit"), Options("simple", "none") }

DefectData ==
  { Data(s, p, r) : s \in DefectSellers, p \in DefectProducts, r \in DefectRecords }
    \cup {NoData}

NoResult == [returned |-> FALSE, records |-> <<>>]
NoCall == [index |-> 0, total |-> 1, seller |-> [profit |-> 0], returned |-> FALSE, value |-> 0]

(***************************************************************************)
(* calculateSimpleRevenue (lines 8-12):                                    *)
(*   sale_price * quantity * (1 - discount / 100), in 1/Scale units.       *)
(***************************************************************************)
calculateSimpleRevenue(purchase, _product) ==
  (purchase.sale_price * purchase.quantity * (100 - purchase.discount) * Scale) \div 100

(* A caller-supplied revenue strategy that prices by the catalogue card.   *)
calculateCatalogRevenue(purchase, _product) ==
  (_product.sale_price * purchase.quantity * (100 - purchase.discount) * Scale) \div 100

(***************************************************************************)
(* calculateBonusByProfit (lines 21-36).                                   *)
(***************************************************************************)
BonusPercentageOffByOne(index, total) ==
  IF index = 0 THEN 15
  ELSE IF index <= 2 /\ index > 0 THEN 10
  ELSE IF index <= total - 1 THEN 5
  ELSE 0

BonusPercentageLastFirst(index, total) ==
  IF index = total - 1 THEN 0
  ELSE IF index = 0 THEN 15
  ELSE IF index <= 2 /\ index > 0 THEN 10
  ELSE 5

bonusPercentage(index, total) ==
  IF index = 0 THEN 15
  ELSE IF index <= 2 /\ index > 0 THEN 10
  ELSE IF index < total - 1 THEN 5
  ELSE 0

calculateBonusByProfit(index, total, seller) ==
  (seller.profit * bonusPercentage(index, total)) \div 100

(* A caller-supplied bonus strategy: 1% of the seller's revenue.           *)
calculateBonusByRevenue(index, total, seller) == seller.revenue \div 100

CallRevenue(fn, purchase, product) ==
  IF fn = "simple" THEN calculateSimpleRevenue(purchase, product)
  ELSE calculateCatalogRevenue(purchase, product)

CallBonus(fn, index, total, seller) ==
  IF fn = "byProfit" THEN calculateBonusByProfit(index, total, seller)
  ELSE calculateBonusByRevenue(index, total, seller)

IsFunction(fn) == fn # "none"

(***************************************************************************)
(* +x.toFixed(2): the nearest hundredth, halves away from zero.            *)
(***************************************************************************)
Abs(x) == IF x < 0 THEN -x ELSE x
Cent == Scale \div 100
toFixed2(x) ==
  LET n == (Abs(x) + Cent \div 2) \div Cent
  IN  IF x < 0 THEN -(n * Cent) ELSE n * Cent


(***************************************************************************)
(* Validation (lines 47-104).                                              *)
(***************************************************************************)
Some(seq, P(_)) == \E i \in 1..Len(seq) : P(seq[i])

EmptyOrNotArray(c) == ~c.isArray \/ Len(c.elems) = 0

InvalidSeller(s) == ~Truthy(s.id) \/ ~TruthyStr(s.first_name) \/ ~TruthyStr(s.last_name)

InvalidProduct(p) == ~Truthy(p.sku) \/ ~Truthy(p.purchase_price) \/ ~Truthy(p.sale_price)

InvalidPurchaseUnknownSeller(p) ==
  ~Truthy(p.seller_id) \/ p.items.kind = "missing" \/ p.items.kind # "array"
    \/ Len(p.items.elems) = 0
    \/ ~\E i \in 1..Len(data.sellers.elems) : data.sellers.elems[i].id = p.seller_id

InvalidPurchase(p) ==
  ~Truthy(p.seller_id) \/ p.items.kind = "missing" \/ p.items.kind # "array"
    \/ Len(p.items.elems) = 0

InvalidItemNoPriceCheck(item) == ~Truthy(item.sku) \/ ~Truthy(item.quantity)

InvalidItem(item) ==
  ~Truthy(item.sku) \/ ~Truthy(item.quantity) \/ ~Truthy(item.sale_price)

hasInvalidSellers == Some(data.sellers.elems, InvalidSeller)
hasInvalidProducts == Some(data.products.elems, InvalidProduct)
hasInvalidPurchases == Some(data.purchase_records.elems, InvalidPurchase)
HasInvalidItemIn(p) == Some(p.items.elems, InvalidItem)
hasInvalidItems == Some(data.purchase_records.elems, HasInvalidItemIn)

Throw(kind) ==
  /\ pc' = "error"
  /\ thrown' = kind

Goto(label) ==
  /\ pc' = label
  /\ thrown' = thrown

(* lines 47-59 *)
CheckData ==
  /\ pc = "checkData"
  /\ IF \/ ~data.present
        \/ EmptyOrNotArray(data.sellers)
        \/ EmptyOrNotArray(data.products)
        \/ EmptyOrNotArray(data.purchase_records)
     THEN Throw("data")
     ELSE Goto("checkStructure")
  /\ UNCHANGED <<data, options, sellerIndex, productIndex, sellerStats, next,
                 revenueCalls, bonusCalls, result, bonusCall>>

(* lines 62-82 *)
CheckStructure ==
  /\ pc = "checkStructure"
  /\ IF hasInvalidSellers \/ hasInvalidProducts \/ hasInvalidPurchases
     THEN Throw("structure")
     ELSE Goto("checkItems")
  /\ UNCHANGED <<data, options, sellerIndex, productIndex, sellerStats, next,
                 revenueCalls, bonusCalls, result, bonusCall>>

(* lines 85-93 *)
CheckItems ==
  /\ pc = "checkItems"
  /\ IF hasInvalidItems THEN Throw("items") ELSE Goto("checkOptions")
  /\ UNCHANGED <<data, options, sellerIndex, productIndex, sellerStats, next,
                 revenueCalls, bonusCalls, result, bonusCall>>

(* lines 96-104 *)
CheckOptions ==
  /\ pc = "checkOptions"
  /\ IF \/ ~options.present
        \/ ~IsFunction(options.calculateRevenue)
        \/ ~IsFunction(options.calculateBonus)
     THEN Throw("options")
     ELSE Goto("buildIndex")
  /\ UNCHANGED <<data, options, sellerIndex, productIndex, sellerStats, next,
                 revenueCalls, bonusCalls, result, bonusCall>>

(***************************************************************************)
(* Indices (lines 106-128): index[key] = value, the last write wins.       *)
(***************************************************************************)
Put(m, k, v) == [x \in DOMAIN m \cup {k} |-> IF x = k THEN v ELSE m[x]]

SellerIndexOf(sellers) ==
  LET f[i \in 0..Len(sellers)] ==
        IF i = 0 THEN <<>> ELSE Put(f[i - 1], sellers[i].id, sellers[i])
  IN  f[Len(sellers)]

ProductIndexOf(products) ==
  LET f[i \in 0..Len(products)] ==
        IF i = 0 THEN <<>> ELSE Put(f[i - 1], products[i].sku, products[i])
  IN  f[Len(products)]

IndexSellerInvalid(s) == InvalidSeller(s)
IndexProductInvalid(p) == ~Truthy(p.sku)

BuildIndex ==
  /\ pc = "buildIndex"
  /\ IF \/ Some(data.sellers.elems, IndexSellerInvalid)
        \/ Some(data.products.elems, IndexProductInvalid)
     THEN /\ Throw("index")
          /\ UNCHANGED <<sellerIndex, productIndex>>
     ELSE /\ Goto("initStats")
          /\ sellerIndex' = SellerIndexOf(data.sellers.elems)
          /\ productIndex' = ProductIndexOf(data.products.elems)
  /\ UNCHANGED <<data, options, sellerStats, next, revenueCalls, bonusCalls,
                 result, bonusCall>>

(***************************************************************************)
(* Accumulators (lines 131-139).  name is the pair that the template       *)
(* string joins with a space; top_products is unset until line 204.        *)
(***************************************************************************)
NewStat(seller) ==
  [ id |-> seller.id,
    name |-> <<seller.first_name, seller.last_name>>,
    revenue |-> 0,
    profit |-> 0,
    sales_count |-> 0,
    products_sold |-> <<>>,
    bonus |-> 0,
    top_products |-> <<>> ]

StatsOfDistinct(sellers) ==
  LET f[i \in 0..Len(sellers)] ==
        IF i = 0 THEN <<>>
        ELSE IF \E j \in 1..Len(f[i - 1]) : f[i - 1][j].id = sellers[i].id
             THEN f[i - 1]
             ELSE Append(f[i - 1], NewStat(sellers[i]))
  IN  f[Len(sellers)]

StatsOf(sellers) == [i \in 1..Len(sellers) |-> NewStat(sellers[i])]

InitStats ==
  /\ pc = "initStats"
  /\ sellerStats' = StatsOf(data.sellers.elems)
  /\ next' = 1
  /\ Goto("fold")
  /\ UNCHANGED <<data, options, sellerIndex, productIndex, revenueCalls,
                 bonusCalls, result, bonusCall>>


(***************************************************************************)
(* Fold of the purchase records (lines 142-194).                           *)
(***************************************************************************)
(* sellerStats.find(s => s.id === id): the first position holding id, or 0 *)
FindStat(stats, id) ==
  IF \E i \in 1..Len(stats) : stats[i].id = id
  THEN CHOOSE i \in 1..Len(stats) :
         /\ stats[i].id = id
         /\ \A j \in 1..(i - 1) : stats[j].id # id
  ELSE 0

(* lines 189-192: products_sold[sku] = (products_sold[sku] || 0) + quantity; *)
(* the entries are kept in the order the keys were first written, which   *)
(* is the order Object.entries lists keys that are not array indices.      *)
AddSold(sold, sku, quantity) ==
  IF \E i \in 1..Len(sold) : sold[i].sku = sku
  THEN LET i == CHOOSE j \in 1..Len(sold) : sold[j].sku = sku
       IN  [sold EXCEPT ![i].quantity = @ + quantity]
  ELSE Append(sold, [sku |-> sku, quantity |-> 0 + quantity])

(* lines 172-183, with the revenue strategy fn *)
ItemProfitAtSalePrice(fn, item, product) ==
  CallRevenue(fn, [sale_price |-> item.sale_price, quantity |-> item.quantity,
                   discount |-> item.discount], product)
    - product.sale_price * item.quantity * Scale

ItemProfit(fn, item, product) ==
  CallRevenue(fn, [sale_price |-> item.sale_price, quantity |-> item.quantity,
                   discount |-> IF Truthy(item.discount) THEN item.discount ELSE 0],
              product)
    - product.purchase_price * item.quantity * Scale

FoldItemNoProductCheck(acc, item) ==
  IF ~Truthy(item.sku) \/ ~Truthy(item.quantity) \/ ~Truthy(item.sale_price)
  THEN acc
  ELSE LET known == item.sku \in DOMAIN productIndex
           gain == IF known
                   THEN ItemProfit(options.calculateRevenue, item, productIndex[item.sku])
                   ELSE calculateSimpleRevenue(item, item)
       IN  [ stat |-> [acc.stat EXCEPT
                         !.profit = @ + gain,
                         !.products_sold = AddSold(@, item.sku, item.quantity)],
             calls |-> acc.calls + 1 ]

(* lines 160-193: one item folded into acc = [stat, calls] *)
FoldItem(acc, item) ==
  IF ~Truthy(item.sku) \/ ~Truthy(item.quantity) \/ ~Truthy(item.sale_price)
  THEN acc
  ELSE IF item.sku \notin DOMAIN productIndex
  THEN acc
  ELSE LET product == productIndex[item.sku]
       IN  [ stat |-> [acc.stat EXCEPT
                         !.profit = @ + ItemProfit(options.calculateRevenue, item, product),
                         !.products_sold = AddSold(@, item.sku, item.quantity)],
             calls |-> acc.calls + 1 ]

FoldItems(stat, items) ==
  LET f[i \in 0..Len(items)] ==
        IF i = 0 THEN [stat |-> stat, calls |-> 0] ELSE FoldItem(f[i - 1], items[i])
  IN  f[Len(items)]

(* lines 157-158 *)
CountSale(stat, record) ==
  [stat EXCEPT !.revenue = @ + record.total_amount * Scale, !.sales_count = @ + 1]

(* the positions of sellerStats that one record updates *)
TargetsAll(stats, id) == {i \in 1..Len(stats) : stats[i].id = id}

Targets(stats, id) == {FindStat(stats, id)} \ {0}

(* lines 142-194: the callback on one record, as [stats, calls] *)
FoldRecord(stats, record) ==
  IF ~Truthy(record.seller_id) \/ record.items.kind = "missing"
  THEN [stats |-> stats, calls |-> 0]
  ELSE IF record.seller_id \notin DOMAIN sellerIndex
  THEN [stats |-> stats, calls |-> 0]
  ELSE LET seller == sellerIndex[record.seller_id]
           hit == Targets(stats, seller.id)
           folded(i) == FoldItems(CountSale(stats[i], record), record.items.elems)
       IN  IF hit = {}
           THEN [stats |-> stats, calls |-> 0]
           ELSE [ stats |-> [i \in 1..Len(stats) |->
                               IF i \in hit THEN folded(i).stat ELSE stats[i]],
                  calls |-> folded(CHOOSE i \in hit : TRUE).calls ]

ProcessRecord ==
  /\ pc = "fold"
  /\ next <= Len(data.purchase_records.elems)
  /\ LET r == FoldRecord(sellerStats, data.purchase_records.elems[next])
     IN  /\ sellerStats' = r.stats
         /\ revenueCalls' = revenueCalls + r.calls
  /\ next' = next + 1
  /\ Goto(IF next = Len(data.purchase_records.elems) THEN "sort" ELSE "fold")
  /\ UNCHANGED <<data, options, sellerIndex, productIndex, bonusCalls, result,
                 bonusCall>>

(***************************************************************************)
(* Ranking (line 197): Array.prototype.sort is stable (ECMAScript 2019);   *)
(* with the comparator b.profit - a.profit an element is placed after      *)
(* every element whose profit is not smaller.                              *)
(***************************************************************************)
SortByProfitTiesReversed(stats) ==
  LET ins(sorted, x) ==
        LET k == Cardinality({i \in 1..Len(sorted) : sorted[i].profit > x.profit})
        IN  SubSeq(sorted, 1, k) \o <<x>> \o SubSeq(sorted, k + 1, Len(sorted))
      f[i \in 0..Len(stats)] == IF i = 0 THEN <<>> ELSE ins(f[i - 1], stats[i])
  IN  f[Len(stats)]

SortByProfit(stats) ==
  LET ins(sorted, x) ==
        LET k == Cardinality({i \in 1..Len(sorted) : sorted[i].profit >= x.profit})
        IN  SubSeq(sorted, 1, k) \o <<x>> \o SubSeq(sorted, k + 1, Len(sorted))
      f[i \in 0..Len(stats)] == IF i = 0 THEN <<>> ELSE ins(f[i - 1], stats[i])
  IN  f[Len(stats)]

SortStats ==
  /\ pc = "sort"
  /\ sellerStats' = SortByProfit(sellerStats)
  /\ Goto("bonus")
  /\ UNCHANGED <<data, options, sellerIndex, productIndex, next, revenueCalls,
                 bonusCalls, result, bonusCall>>

(***************************************************************************)
(* Bonuses and top products (lines 200-208).                               *)
(***************************************************************************)
TopLimit == 10

SortByQuantity(entries) ==
  LET ins(sorted, x) ==
        LET k == Cardinality({i \in 1..Len(sorted) : sorted[i].quantity >= x.quantity})
        IN  SubSeq(sorted, 1, k) \o <<x>> \o SubSeq(sorted, k + 1, Len(sorted))
      f[i \in 0..Len(entries)] == IF i = 0 THEN <<>> ELSE ins(f[i - 1], entries[i])
  IN  f[Len(entries)]

Slice(seq, n) == SubSeq(seq, 1, IF Len(seq) < n THEN Len(seq) ELSE n)

TopProductsUnsorted(products_sold) == Slice(products_sold, TopLimit)

TopProducts(products_sold) == Slice(SortByQuantity(products_sold), TopLimit)

AssignBonuses ==
  /\ pc = "bonus"
  /\ sellerStats' =
       [i \in 1..Len(sellerStats) |->
          [sellerStats[i] EXCEPT
             !.bonus = CallBonus(options.calculateBonus, i - 1, Len(sellerStats),
                                 sellerStats[i]),
             !.top_products = TopProducts(sellerStats[i].products_sold)]]
  /\ bonusCalls' = bonusCalls + Len(sellerStats)
  /\ Goto("format")
  /\ UNCHANGED <<data, options, sellerIndex, productIndex, next, revenueCalls,
                 result, bonusCall>>

(***************************************************************************)
(* The returned records (lines 211-219).                                   *)
(***************************************************************************)
Format(seller) ==
  [ seller_id |-> seller.id,
    name |-> seller.name,
    revenue |-> toFixed2(seller.revenue),
    profit |-> toFixed2(seller.profit),
    sales_count |-> seller.sales_count,
    top_products |-> seller.top_products,
    bonus |-> toFixed2(seller.bonus) ]

Return ==
  /\ pc = "format"
  /\ result' = [returned |-> TRUE,
                records |-> [i \in 1..Len(sellerStats) |-> Format(sellerStats[i])]]
  /\ Goto("done")
  /\ UNCHANGED <<data, options, sellerIndex, productIndex, sellerStats, next,
                 revenueCalls, bonusCalls, bonusCall>>

(***************************************************************************)
(* analyzeSalesData(data, options), one call.                              *)
(***************************************************************************)
Init ==
  /\ \/ data \in ValidData /\ options \in OptionsPool
     \/ data \in DefectData /\ options \in DefectOptions
  /\ pc = "checkData"
  /\ thrown = "none"
  /\ sellerIndex = <<>>
  /\ productIndex = <<>>
  /\ sellerStats = <<>>
  /\ next = 0
  /\ revenueCalls = 0
  /\ bonusCalls = 0
  /\ result = NoResult
  /\ bonusCall = NoCall

Next ==
  \/ CheckData
  \/ CheckStructure
  \/ CheckItems
  \/ CheckOptions
  \/ BuildIndex
  \/ InitStats
  \/ ProcessRecord
  \/ SortStats
  \/ AssignBonuses
  \/ Return

Spec == Init /\ [][Next]_vars

(***************************************************************************)
(* calculateBonusByProfit(index, total, seller), called on its own.        *)
(***************************************************************************)
BonusProfits == {-200 * Scale, 0, 68 * Scale, 100 * Scale, 1005 * (Scale \div 10)}

InitBonus ==
  /\ data = NoData
  /\ options = Options("simple", "byProfit")
  /\ pc = "idle"
  /\ thrown = "none"
  /\ sellerIndex = <<>>
  /\ productIndex = <<>>
  /\ sellerStats = <<>>
  /\ next = 0
  /\ revenueCalls = 0
  /\ bonusCalls = 0
  /\ result = NoResult
  /\ \E total \in 1..MaxTotal, index \in 0..(MaxTotal - 1), profit \in BonusProfits :
       /\ index < total
       /\ bonusCall = [index |-> index, total |-> total, seller |-> [profit |-> profit],
                       returned |-> FALSE, value |-> 0]

CallBonusByProfit ==
  /\ pc = "idle"
  /\ ~bonusCall.returned
  /\ bonusCall' = [bonusCall EXCEPT
                     !.returned = TRUE,
                     !.value = calculateBonusByProfit(bonusCall.index, bonusCall.total,
                                                      bonusCall.seller)]
  /\ UNCHANGED <<data, options, pc, thrown, sellerIndex, productIndex, sellerStats,
                 next, revenueCalls, bonusCalls, result>>

NextBonus == CallBonusByProfit

SpecBonus == InitBonus /\ [][NextBonus]_vars


(***************************************************************************)
(* What the input says, read off the dataset alone.                        *)
(***************************************************************************)
Sellers == data.sellers.elems
Products == data.products.elems
Records == data.purchase_records.elems

SumTo(n, F(_)) ==
  LET f[i \in 0..n] == IF i = 0 THEN 0 ELSE f[i - 1] + F(i)
  IN  f[n]

KnownSellerId(id) == \E i \in 1..Len(Sellers) : Sellers[i].id = id
KnownSku(sku) == \E i \in 1..Len(Products) : Products[i].sku = sku

(* the catalogue card a sku resolves to: the last one listed *)
CardOf(sku) ==
  Products[CHOOSE i \in 1..Len(Products) :
             /\ Products[i].sku = sku
             /\ \A j \in (i + 1)..Len(Products) : Products[j].sku # sku]

IsFirstHolder(i) == \A j \in 1..(i - 1) : Sellers[j].id # Sellers[i].id

ItemView(item) ==
  [sale_price |-> item.sale_price, quantity |-> item.quantity, discount |-> item.discount]

ExpectedItemProfit(item) ==
  IF KnownSku(item.sku)
  THEN CallRevenue(options.calculateRevenue, ItemView(item), CardOf(item.sku))
         - CardOf(item.sku).purchase_price * item.quantity * Scale
  ELSE 0

ExpectedRecordProfit(r) ==
  LET its == Records[r].items.elems
      one(k) == ExpectedItemProfit(its[k])
  IN  SumTo(Len(its), one)

ExpectedProfit(id) ==
  LET one(r) == IF Records[r].seller_id = id THEN ExpectedRecordProfit(r) ELSE 0
  IN  SumTo(Len(Records), one)

ExpectedAmount(id) ==
  LET one(r) == IF Records[r].seller_id = id THEN Records[r].total_amount * Scale ELSE 0
  IN  SumTo(Len(Records), one)

ExpectedQuantity(id, sku) ==
  LET qty(r) ==
        LET its == Records[r].items.elems
            one(k) == IF its[k].sku = sku THEN its[k].quantity ELSE 0
        IN  SumTo(Len(its), one)
      rec(r) == IF Records[r].seller_id = id THEN qty(r) ELSE 0
  IN  SumTo(Len(Records), rec)

MatchedRecords(n) ==
  LET one(r) == IF KnownSellerId(Records[r].seller_id) THEN 1 ELSE 0
  IN  SumTo(n, one)

HasMatchedItem(id) ==
  \E r \in 1..Len(Records) :
    /\ Records[r].seller_id = id
    /\ \E k \in 1..Len(Records[r].items.elems) : KnownSku(Records[r].items.elems[k].sku)

HasRecord(id) == \E r \in 1..Len(Records) : Records[r].seller_id = id

Lacks(v) == v = 0
LacksStr(v) == v = ""

BadCollections ==
  \/ ~data.present
  \/ ~data.sellers.isArray \/ Sellers = <<>>
  \/ ~data.products.isArray \/ Products = <<>>
  \/ ~data.purchase_records.isArray \/ Records = <<>>

BadSellerRow ==
  \E i \in 1..Len(Sellers) :
    Lacks(Sellers[i].id) \/ LacksStr(Sellers[i].first_name) \/ LacksStr(Sellers[i].last_name)

BadProductRow ==
  \E i \in 1..Len(Products) :
    Lacks(Products[i].sku) \/ Lacks(Products[i].purchase_price) \/ Lacks(Products[i].sale_price)

BadRecordRow ==
  \E r \in 1..Len(Records) :
    \/ Lacks(Records[r].seller_id)
    \/ Records[r].items.kind # "array"
    \/ Records[r].items.elems = <<>>

BadItemRow ==
  \E r \in 1..Len(Records) : \E k \in 1..Len(Records[r].items.elems) :
    LET item == Records[r].items.elems[k]
    IN  Lacks(item.sku) \/ Lacks(item.quantity) \/ Lacks(item.sale_price)

BadOptions ==
  ~options.present \/ options.calculateRevenue = "none" \/ options.calculateBonus = "none"

InvalidInput ==
  BadCollections \/ BadSellerRow \/ BadProductRow \/ BadRecordRow \/ BadItemRow \/ BadOptions

Validating == pc \in {"checkData", "checkStructure", "checkItems", "checkOptions"}
Accumulating == pc \in {"fold", "sort", "bonus", "format", "done"}

Perms(n) == Permutations(1..n)

Distinct(seq, Key(_)) ==
  \A i, j \in 1..Len(seq) : Key(seq[i]) = Key(seq[j]) => i = j

IdOf(x) == x.id
SellerIdOf(x) == x.seller_id

(* C1: an input that fails any structural check, or options without both
   strategy functions, never gets past validation: the call is still
   validating (and can step) or has thrown, no result is returned, no
   strategy has been invoked and no accumulator exists or has been updated. *)
C1_FailFast ==
  InvalidInput =>
    /\ Validating \/ pc = "error"
    /\ Validating => ENABLED Next
    /\ ~result.returned
    /\ revenueCalls = 0 /\ bonusCalls = 0
    /\ sellerStats = <<>>

C1_Witness == pc = "error" /\ thrown = "items" /\ BadItemRow /\ ~BadRecordRow

(* C2 as stated: after the fold every seller's accumulated profit is the sum
   of revenue - purchase_price * quantity over the known-sku items of the
   records carrying that seller's id. *)
C2_ProfitOfEverySeller ==
  pc = "sort" =>
    \A i \in 1..Len(Sellers) : sellerStats[i].profit = ExpectedProfit(Sellers[i].id)

(* C2 amended: that sum is the accumulated profit of the first sellers-list
   entry carrying the id; a later entry with the same id accumulates
   nothing.  Unknown skus and unknown sellers contribute to nobody. *)
C2_ProfitOfFirstHolder ==
  pc = "sort" =>
    /\ Len(sellerStats) = Len(Sellers)
    /\ \A i \in 1..Len(Sellers) :
         sellerStats[i].profit =
           IF IsFirstHolder(i) THEN ExpectedProfit(Sellers[i].id) ELSE 0

C2_Witness ==
  /\ pc = "sort"
  /\ \E i \in 1..Len(sellerStats) : sellerStats[i].profit # 0
  /\ \E r \in 1..Len(Records) : ~KnownSellerId(Records[r].seller_id)
  /\ \E r \in 1..Len(Records) :
       /\ KnownSellerId(Records[r].seller_id)
       /\ \E k \in 1..Len(Records[r].items.elems) :
            /\ ~KnownSku(Records[r].items.elems[k].sku)
            /\ Records[r].items.elems[k].discount # 0

(* the accumulated profit of the sellers-list entry at position i *)
ProfitAt(i) == IF IsFirstHolder(i) THEN ExpectedProfit(Sellers[i].id) ELSE 0

(* C3: the returned records are in descending order of profit, and they are
   the input sellers rearranged so that sellers of equal accumulated profit
   keep their input order. *)
C3_RankedStable ==
  result.returned =>
    LET out == result.records
        n == Len(out)
        profit == [i \in 1..Len(Sellers) |-> ProfitAt(i)]
        entry == [i \in 1..Len(Sellers) |->
                    [seller_id |-> Sellers[i].id,
                     name |-> <<Sellers[i].first_name, Sellers[i].last_name>>,
                     profit |-> toFixed2(profit[i])]]
        shown == [k \in 1..n |->
                    [seller_id |-> out[k].seller_id, name |-> out[k].name,
                     profit |-> out[k].profit]]
    IN  /\ n = Len(Sellers)
        /\ \A k \in 1..(n - 1) : out[k].profit >= out[k + 1].profit
        /\ \E p \in Perms(n) :
             /\ \A k \in 1..n : shown[k] = entry[p[k]]
             /\ \A k, l \in 1..n :
                  k < l => \/ profit[p[k]] > profit[p[l]]
                           \/ profit[p[k]] = profit[p[l]] /\ p[k] < p[l]

C3_Witness ==
  /\ result.returned
  /\ Len(result.records) = 3
  /\ result.records[1].profit = result.records[2].profit
  /\ result.records[1].profit # 0
  /\ result.records[1].name # result.records[2].name
  /\ result.records[2].seller_id # Sellers[2].id

(* C4 as stated: with calculateBonusByProfit the last of total >= 2 ranks
   gets a bonus of 0. *)
C4_LastRankZeroFromTwo ==
  (bonusCall.returned /\ bonusCall.total >= 2 /\ bonusCall.index = bonusCall.total - 1)
    => bonusCall.value = 0

(* C4 amended: with calculateBonusByProfit the last of total >= 4 ranks gets
   a bonus of 0, whatever the profit (for total 2 and 3 the last rank is
   index 1 or 2 and gets 10%). *)
C4_LastRankZeroFromFour ==
  (bonusCall.returned /\ bonusCall.total >= 4 /\ bonusCall.index = bonusCall.total - 1)
    => bonusCall.value = 0

C4_Witness ==
  /\ bonusCall.returned
  /\ bonusCall.total >= 4
  /\ bonusCall.index = bonusCall.total - 1
  /\ bonusCall.seller.profit # 0
  /\ bonusCall.value = 0

(* C5: calculateBonusByProfit returns profit times the rate of the first
   matching branch: index 0 -> 15%, index 1 or 2 -> 10%, index < total - 1
   -> 5%, otherwise 0; a sole seller gets 15%. *)
C5_FirstMatchingBranch ==
  bonusCall.returned =>
    LET i == bonusCall.index
        rate == IF i = 0 THEN 15
                ELSE IF i \in {1, 2} THEN 10
                ELSE IF i < bonusCall.total - 1 THEN 5
                ELSE 0
    IN  /\ bonusCall.value * 100 = bonusCall.seller.profit * rate
        /\ (i = 0 /\ bonusCall.total = 1) =>
             bonusCall.value * 100 = bonusCall.seller.profit * 15

C5_Witness ==
  /\ bonusCall.returned
  /\ bonusCall.index = 0
  /\ bonusCall.total = 1
  /\ bonusCall.value # 0
  /\ bonusCall.value * 100 = bonusCall.seller.profit * 15


TotalSales(seq) ==
  LET one(i) == seq[i].sales_count
  IN  SumTo(Len(seq), one)

(* C6: the sales_count of all sellers together is the number of purchase
   records folded so far whose seller_id is a known seller's (so every such
   record adds exactly 1, to one seller, and an unknown seller_id adds
   nothing), duplicate seller ids included; the returned records carry the
   count over all purchase records. *)
C6_SalesCountSum ==
  /\ Accumulating =>
       /\ TotalSales(sellerStats) = MatchedRecords(next - 1)
       /\ \A i \in 1..Len(sellerStats) : sellerStats[i].sales_count >= 0
  /\ result.returned => TotalSales(result.records) = MatchedRecords(Len(Records))

C6_Witness ==
  /\ result.returned
  /\ ~Distinct(Sellers, IdOf)
  /\ TotalSales(result.records) = 1
  /\ Len(Records) = 2

(* the returned bonus of the record at rank k, had its profit been zero *)
ZeroProfitBonus(k) ==
  toFixed2(CallBonus(options.calculateBonus, k - 1, Len(sellerStats),
                     [sellerStats[k] EXCEPT !.profit = 0]))

(* C7 as stated: a seller none of whose items has a known sku is returned
   with profit 0, revenue 0, no top products and the zero-profit bonus of
   its rank. *)
C7_NoItemsAllZero ==
  result.returned =>
    \A k \in 1..Len(result.records) :
      ~HasMatchedItem(result.records[k].seller_id) =>
        /\ result.records[k].profit = 0
        /\ result.records[k].revenue = 0
        /\ result.records[k].top_products = <<>>
        /\ result.records[k].bonus = ZeroProfitBonus(k)

(* C7 amended: a seller none of whose items has a known sku is returned with
   profit 0, no top products and the zero-profit bonus of its rank; its
   revenue is 0 when no purchase record carries its id, and otherwise (all
   items of its records have unknown skus) the revenue of the sellers with
   that id together is the sum of those records' total_amount. *)
C7_NoItemsZeroProfit ==
  result.returned =>
    \A k \in 1..Len(result.records) :
      LET id == result.records[k].seller_id
          same == {l \in 1..Len(result.records) : result.records[l].seller_id = id}
          rev(l) == IF l \in same THEN result.records[l].revenue ELSE 0
      IN  ~HasMatchedItem(id) =>
            /\ result.records[k].profit = 0
            /\ result.records[k].top_products = <<>>
            /\ result.records[k].bonus = ZeroProfitBonus(k)
            /\ ~HasRecord(id) => result.records[k].revenue = 0
            /\ SumTo(Len(result.records), rev) = toFixed2(ExpectedAmount(id))

C7_Witness ==
  /\ result.returned
  /\ \E k, l \in 1..Len(result.records) :
       /\ ~HasMatchedItem(result.records[k].seller_id)
       /\ HasRecord(result.records[k].seller_id)
       /\ result.records[k].revenue # 0
       /\ ~HasRecord(result.records[l].seller_id)
       /\ result.records[l].revenue = 0

StructurallyValid ==
  ~BadCollections /\ ~BadSellerRow /\ ~BadProductRow /\ ~BadOptions

HasUnknownSeller == \E r \in 1..Len(Records) : ~KnownSellerId(Records[r].seller_id)

HasUnknownSku ==
  \E r \in 1..Len(Records) :
    /\ KnownSellerId(Records[r].seller_id)
    /\ \E k \in 1..Len(Records[r].items.elems) : ~KnownSku(Records[r].items.elems[k].sku)

FullResult ==
  /\ result.returned
  /\ Len(result.records) = Len(Sellers)

(* C8 as stated: with valid collections, sellers, products and options, a
   malformed purchase record or item, an unknown seller_id or an unknown
   sku never makes the call end in an error. *)
C8_RowDefectsNeverAbort == StructurallyValid => pc # "error"

(* C8 amended: with valid collections, sellers, products and options, a
   purchase record of an unknown seller_id and an item of an unknown sku
   are skipped and the call returns one record per seller; a purchase
   record without seller_id or a non-empty items array, or an item without
   sku, quantity or sale_price, ends the call in an error. *)
C8_UnknownSkippedMalformedThrows ==
  StructurallyValid =>
    /\ (BadRecordRow \/ BadItemRow) => (Validating \/ pc = "error") /\ ~result.returned
    /\ ~(BadRecordRow \/ BadItemRow) =>
         /\ pc # "error"
         /\ pc = "done" => FullResult

C8_Witness ==
  /\ pc = "done"
  /\ FullResult
  /\ HasUnknownSeller
  /\ HasUnknownSku

(* C9: every returned top_products has at most 10 entries in descending
   order of quantity; they are the largest-quantity entries of the seller's
   products_sold, and each quantity is the total quantity of the sku over
   the items of the purchase records carrying the seller's id. *)
C9_TopProducts ==
  result.returned =>
    \A k \in 1..Len(result.records) :
      LET top == result.records[k].top_products
          sold == sellerStats[k].products_sold
          id == result.records[k].seller_id
      IN  /\ Len(top) <= 10
          /\ Len(top) = (IF Len(sold) < 10 THEN Len(sold) ELSE 10)
          /\ \A i \in 1..(Len(top) - 1) : top[i].quantity >= top[i + 1].quantity
          /\ \A i, j \in 1..Len(top) : top[i].sku = top[j].sku => i = j
          /\ \A i \in 1..Len(top) : \E j \in 1..Len(sold) : sold[j] = top[i]
          /\ \A j \in 1..Len(sold) :
               (\A i \in 1..Len(top) : top[i] # sold[j]) =>
                 \A i \in 1..Len(top) : top[i].quantity >= sold[j].quantity
          /\ \A i \in 1..Len(top) :
               /\ KnownSku(top[i].sku)
               /\ top[i].quantity = ExpectedQuantity(id, top[i].sku)

C9_Witness ==
  /\ result.returned
  /\ \E k \in 1..Len(result.records) :
       /\ Len(sellerStats[k].products_sold) > 10
       /\ Len(result.records[k].top_products) = 10
       /\ result.records[k].top_products[1].quantity > 3
       /\ result.records[k].top_products[1].quantity > result.records[k].top_products[10].quantity

(* C10 as stated: from accumulator initialization on, and in the result,
   the stats are one per input seller and their ids are pairwise distinct,
   also when two sellers share an id. *)
C10_UniqueIds ==
  /\ Accumulating =>
       Len(sellerStats) = Len(Sellers) /\ Distinct(sellerStats, IdOf)
  /\ result.returned =>
       Len(result.records) = Len(Sellers) /\ Distinct(result.records, SellerIdOf)

(* C10 amended: from accumulator initialization on, and in the result, the
   stats correspond 1:1 to the entries of the sellers list (same id and
   name), so their ids are pairwise distinct exactly when the input
   sellers' ids are; two sellers sharing an id yield two stats with that
   id. *)
C10_OnePerSellerEntry ==
  LET entry(i) == <<Sellers[i].id, <<Sellers[i].first_name, Sellers[i].last_name>>>>
      times(e) == Cardinality({i \in 1..Len(Sellers) : entry(i) = e})
      stat(k) == <<sellerStats[k].id, sellerStats[k].name>>
      statTimes(e) == Cardinality({k \in 1..Len(sellerStats) : stat(k) = e})
      out(k) == <<result.records[k].seller_id, result.records[k].name>>
      outTimes(e) == Cardinality({k \in 1..Len(result.records) : out(k) = e})
  IN  /\ Accumulating =>
           /\ Len(sellerStats) = Len(Sellers)
           /\ \A i \in 1..Len(Sellers) : statTimes(entry(i)) = times(entry(i))
           /\ Distinct(sellerStats, IdOf) <=> Distinct(Sellers, IdOf)
      /\ result.returned =>
           /\ Len(result.records) = Len(Sellers)
           /\ \A i \in 1..Len(Sellers) : outTimes(entry(i)) = times(entry(i))
           /\ Distinct(result.records, SellerIdOf) <=> Distinct(Sellers, IdOf)

C10_Witness ==
  /\ result.returned
  /\ \E k, l \in 1..Len(result.records) :
       /\ k # l
       /\ result.records[k].seller_id = result.records[l].seller_id
       /\ result.records[k].name # result.records[l].name
       /\ result.records[k].sales_count > 0

====
